---- MODULE Spec2Model ----
(***************************************************************************)
(* Model of new_server.py: the PlantBrain singleton, its weather cache     *)
(* (get_weather), the VPD calculator and the sensor_data / manual_control  *)
(* socket handlers.                                                        *)
(*                                                                         *)
(* Units.  Sensor values, NPK values and weather numbers are integers.     *)
(* Wall-clock time (time.time()) is counted in whole seconds.  A moving    *)
(* average of 1..5 integers is a multiple of 1/60, so averages are kept    *)
(* exactly as integers scaled by Scale = 60 (avg_soil > 80 is              *)
(* avg > 80 * Scale).  VPD is kept in units of 1/VScale kPa and computed   *)
(* in 31-bit fixed point; on averages from -237.3 (excluded) to 60 degrees *)
(* and humidities 0..100 it is within 0.0000004 kPa of the float value.    *)
(*                                                                         *)
(* A handler runs to completion in one step: the handlers are coroutines   *)
(* on one event loop and requests.get is a blocking call, so nothing       *)
(* interleaves before the final emit.  The clock moves on while            *)
(* requests.get blocks: get_weather reads it before the request, the pulse *)
(* logic after it.                                                         *)
(***************************************************************************)
EXTENDS Integers, Sequences, FiniteSets, TLC

VARIABLES
    plant,        \* the PlantBrain instance (module-level singleton `plant`)
    now,          \* wall clock, what time.time() returns
    last,         \* history: what the most recent handler invocation did
    fetch_times,  \* history: times of the external weather requests so far
    emitted,      \* history: number of system_update records emitted
    active_since, \* history: time of the cycle that last switched the pump on
    cycles,       \* history: number of sensor_data invocations so far
    ticks,        \* history: number of clock advances so far
    inflight,     \* handler coroutines suspended at an await
    solo,         \* history: per client, the PlantBrain it would have alone
    log           \* history: per channel, every value appended so far

vars == <<plant, now, last, fetch_times, emitted, active_since, cycles, ticks,
          inflight, solo, log>>

----------------------------------------------------------------------------
(* Bounds of the exploration *)

MaxCycles == 4
MaxTicks == 2
DecisionCycles == 3
DecisionTicks == 1
WeatherCycles == 4
WeatherTicks == 2
InvalidCycles == 3
InvalidTicks == 1
BufferCycles == 7
BufferTicks == 1
SharedCycles == 3
SharedTicks == 1
ConcurrentCycles == 4
ConcurrentTicks == 1

(* Program constants *)

StartTime == 1000
WindowSize == 5
Scale == 60
VScale == 100000000
Limb == 10000
SvpBase == 61080000
WeatherTTL == 600
SoilSaturation == 80
TempHeatStress == 35
SalinityLimit == 200
ThresholdDefault == 40
ThresholdRain == 20
ThresholdDry == 50
VpdDry == 120000000
PulseMax == 10
BatteryShown == 85

\* stands for a value that is not a number (a JSON null or a string) in a
\* place where the code does arithmetic
NotANumber == 0 - 1000000

----------------------------------------------------------------------------
(* Sensor Smoother: deque(maxlen=5) and the moving average *)

RECURSIVE Sum(_)
Sum(s) == IF s = <<>> THEN 0 ELSE Head(s) + Sum(Tail(s))

\* mutant: a full window keeps its oldest value and drops the newest
BufAppend_KeepOldest(buf, v) ==
    IF Len(buf) < WindowSize THEN Append(buf, v) ELSE buf

\* deque.append on a deque(maxlen=5): drop the oldest when full
BufAppend(buf, v) ==
    IF Len(buf) < WindowSize THEN Append(buf, v) ELSE Append(Tail(buf), v)

\* sum(buf) / len(buf), scaled by Scale (exact: Len(buf) divides 60)
Mean(buf) == (Sum(buf) * Scale) \div Len(buf)

\* round(avg, 1) in tenths; avg is a binary-exact tie only at .25/.75,
\* where Python rounds half to even
Round1(avg) ==
    LET q == avg \div 6
        r == avg % 6
    IN  IF r < 3 THEN q
        ELSE IF r > 3 THEN q + 1
        ELSE IF q % 2 = 0 THEN q ELSE q + 1

----------------------------------------------------------------------------
(* VPD Calculator *)

Abs(x) == IF x < 0 THEN 0 - x ELSE x

\* x / k rounded toward zero
Quot(x, k) == IF x < 0 THEN 0 - ((0 - x) \div k) ELSE x \div k

\* a * b for a and b scaled by VScale, to the nearest unit; the product is
\* taken limb by limb so that every intermediate value fits in 31 bits
MulV(a, b) ==
    LET a1 == Abs(a) \div Limb
        a0 == Abs(a) % Limb
        b1 == Abs(b) \div Limb
        b0 == Abs(b) % Limb
        m1 == a1 * b0
        m2 == a0 * b1
        low == (((m1 % Limb) + (m2 % Limb)) * Limb + (a0 * b0) + (VScale \div 2))
                   \div VScale
        m == (a1 * b1) + (m1 \div Limb) + (m2 \div Limb) + low
    IN  IF (a < 0) = (b < 0) THEN m ELSE 0 - m

\* n / d scaled by VScale for integers n >= 0, d > 0: long division, k
\* decimal digits after the integer part in acc
RECURSIVE DivDigits(_, _, _, _)
DivDigits(r, d, k, acc) ==
    IF k = 0 THEN acc
    ELSE DivDigits((r * 10) % d, d, k - 1, (acc * 10) + ((r * 10) \div d))

DivV(n, d) == DivDigits(n % d, d, 8, n \div d)

\* term + term*x/k + term*x^2/(k(k+1)) + ...: the power series of exp,
\* x and the terms scaled by VScale
RECURSIVE ExpSeries(_, _, _)
ExpSeries(x, term, k) ==
    IF term = 0 THEN 0
    ELSE term + ExpSeries(x, Quot(MulV(term, x), k), k + 1)

\* np.exp(x), x and the result scaled by VScale: exp(x) = exp(x/2) * exp(x - x/2)
\* down to |x| <= 1, then the series
RECURSIVE Exp(_)
Exp(x) ==
    IF Abs(x) <= VScale THEN ExpSeries(x, VScale, 1)
    ELSE MulV(Exp(Quot(x, 2)), Exp(x - Quot(x, 2)))

\* calculate_vpd(temp, humidity): temp scaled by Scale, result by VScale
\*   17.27*temp/(temp+237.3) = 1727*t/(100*(t + 237.3*60)) for t = temp*60
\* below about -126 degrees the exponent is under -20 and svp is 0
calculate_vpd(temp, humidity) ==
    LET n   == 1727 * Abs(temp)
        d   == 100 * (temp + 14238)
        svp == IF temp >= 0 THEN ExpSeries(DivV(n, d), SvpBase, 1)
               ELSE IF n \div d >= 20 THEN 0
               ELSE MulV(SvpBase, Exp(0 - DivV(n, d)))
        avp == MulV(svp, humidity * (VScale \div 100))
    IN  svp - avp

----------------------------------------------------------------------------
(* Weather Context Provider *)

\* the bare `except:` branch
WeatherExcept(p) == [p EXCEPT !.weather_condition = "Clouds"]

\* the body of the try block, on the outcome `resp` of the HTTP request
WeatherTry(p, resp) ==
    IF resp.kind # "object" THEN WeatherExcept(p)
    ELSE LET data == resp.body IN
    IF ~("cod" \in DOMAIN data /\ data.cod = 200) THEN p
    ELSE IF ~("weather" \in DOMAIN data /\ Len(data.weather) >= 1
              /\ "main" \in DOMAIN data.weather[1]) THEN WeatherExcept(p)
    ELSE LET p1 == [p EXCEPT !.weather_condition = data.weather[1].main] IN
    IF ~("main" \in DOMAIN data /\ "temp" \in DOMAIN data.main)
    THEN WeatherExcept(p1)
    ELSE LET p2 == [p1 EXCEPT !.outside_temp = data.main.temp] IN
    IF ~("humidity" \in DOMAIN data.main) THEN WeatherExcept(p2)
    ELSE [p2 EXCEPT !.outside_humidity = data.main.humidity]

\* the throttle test of get_weather: TRUE when the call goes out
WeatherDue(p, t) == ~(t - p.last_weather_fetch < WeatherTTL)

\* where get_weather records the time of the attempt
WeatherStamp(p, t) == [p EXCEPT !.last_weather_fetch = t]

\* mutant: the time of the attempt is recorded only with the update
get_weather_StampOnSuccess(p, t, resp) ==
    IF ~WeatherDue(p, t) THEN p
    ELSE IF resp.kind = "object" /\ "cod" \in DOMAIN resp.body
            /\ resp.body.cod = 200
         THEN WeatherStamp(WeatherTry(p, resp), t)
         ELSE WeatherTry(p, resp)

\* PlantBrain.get_weather
get_weather(p, t, resp) ==
    IF ~WeatherDue(p, t) THEN p
    ELSE WeatherStamp(WeatherTry(p, resp), t)

----------------------------------------------------------------------------
(* Decision Engine *)

Has(data, k) == k \in DOMAIN data

\* mutant: heat stress is tested before saturation
SafetyLayer_HeatFirst(avg_soil, avg_temp, data) ==
    IF avg_temp > TempHeatStress * Scale THEN
        [pump_lock |-> TRUE, decision |-> "Heat Stress",
         alert_message |-> "High Temp! Watering paused."]
    ELSE IF avg_soil > SoilSaturation * Scale THEN
        [pump_lock |-> TRUE, decision |-> "Saturation Lock",
         alert_message |-> "Soil too wet! Pump disabled."]
    ELSE IF data.nitrogen > SalinityLimit \/ data.potassium > SalinityLimit THEN
        [pump_lock |-> TRUE, decision |-> "Salinity Risk",
         alert_message |-> "Nutrient Burn Risk! Flush soil."]
    ELSE
        [pump_lock |-> FALSE, decision |-> "Optimal",
         alert_message |-> "System Normal"]

\* 3.1 Safety Layer: the if / elif / elif / else chain
SafetyLayer(avg_soil, avg_temp, data) ==
    IF avg_soil > SoilSaturation * Scale THEN
        [pump_lock |-> TRUE, decision |-> "Saturation Lock",
         alert_message |-> "Soil too wet! Pump disabled."]
    ELSE IF avg_temp > TempHeatStress * Scale THEN
        [pump_lock |-> TRUE, decision |-> "Heat Stress",
         alert_message |-> "High Temp! Watering paused."]
    ELSE IF data.nitrogen > SalinityLimit \/ data.potassium > SalinityLimit THEN
        [pump_lock |-> TRUE, decision |-> "Salinity Risk",
         alert_message |-> "Nutrient Burn Risk! Flush soil."]
    ELSE
        [pump_lock |-> FALSE, decision |-> "Optimal",
         alert_message |-> "System Normal"]

\* data[k] > 200 raises: KeyError without the key, TypeError on a value
\* that is not a number
CompareRaises(data, k) == ~Has(data, k) \/ data[k] = NotANumber

\* the third test reads data['nitrogen'] and, unless that already exceeds
\* the limit, data['potassium']: an exception leaves the handler there
SafetyRaises(avg_soil, avg_temp, data) ==
    /\ ~(avg_soil > SoilSaturation * Scale)
    /\ ~(avg_temp > TempHeatStress * Scale)
    /\ \/ CompareRaises(data, "nitrogen")
       \/ data.nitrogen <= SalinityLimit /\ CompareRaises(data, "potassium")

\* mutant: the VPD test comes before the rain test
Environment_VpdFirst(weather_condition, vpd, decision) ==
    IF vpd > VpdDry THEN
        [watering_threshold |-> ThresholdDry, decision |-> "High Transpiration"]
    ELSE IF weather_condition = "Rain" THEN
        [watering_threshold |-> ThresholdRain, decision |-> "Raining (Passive)"]
    ELSE
        [watering_threshold |-> ThresholdDefault, decision |-> decision]

\* 3.2 "Adjust based on Environment": threshold and label
Environment(weather_condition, vpd, decision) ==
    IF weather_condition = "Rain" THEN
        [watering_threshold |-> ThresholdRain, decision |-> "Raining (Passive)"]
    ELSE IF vpd > VpdDry THEN
        [watering_threshold |-> ThresholdDry, decision |-> "High Transpiration"]
    ELSE
        [watering_threshold |-> ThresholdDefault, decision |-> decision]

\* "Critical State Check": avg_soil < watering_threshold
Critical(avg_soil, watering_threshold) == avg_soil < watering_threshold * Scale

\* mutant: the timer restarts at every requesting cycle
PulseLogic_Restart(p, t) ==
    LET p1 == [p EXCEPT !.last_pump_time = t]
    IN  IF t - p1.last_pump_time > PulseMax
        THEN [plant |-> [p1 EXCEPT !.alert_message = "Pump Timeout (Safety)"],
              pump_command |-> FALSE]
        ELSE [plant |-> p1, pump_command |-> TRUE]

\* mutant: the timer restarts only while the pump is running
PulseLogic_NoRestart(p, t) ==
    LET p1 == IF p.pump_status THEN [p EXCEPT !.last_pump_time = t] ELSE p
    IN  IF t - p1.last_pump_time > PulseMax
        THEN [plant |-> [p1 EXCEPT !.alert_message = "Pump Timeout (Safety)"],
              pump_command |-> FALSE]
        ELSE [plant |-> p1, pump_command |-> TRUE]

\* mutant: the timeout test is >= instead of >
PulseLogic_AtTen(p, t) ==
    LET p1 == IF ~p.pump_status THEN [p EXCEPT !.last_pump_time = t] ELSE p
    IN  IF t - p1.last_pump_time >= PulseMax
        THEN [plant |-> [p1 EXCEPT !.alert_message = "Pump Timeout (Safety)"],
              pump_command |-> FALSE]
        ELSE [plant |-> p1, pump_command |-> TRUE]

\* mutant: the timeout also takes the time
PulseLogic_StampOnTimeout(p, t) ==
    LET p1 == IF ~p.pump_status THEN [p EXCEPT !.last_pump_time = t] ELSE p
    IN  IF t - p1.last_pump_time > PulseMax
        THEN [plant |-> [p1 EXCEPT !.alert_message = "Pump Timeout (Safety)",
                                   !.last_pump_time = t],
              pump_command |-> FALSE]
        ELSE [plant |-> p1, pump_command |-> TRUE]

\* "Pulse Logic (Max 10s run)": the two ifs under the critical check
PulseLogic(p, t) ==
    LET p1 == IF ~p.pump_status THEN [p EXCEPT !.last_pump_time = t] ELSE p
    IN  IF t - p1.last_pump_time > PulseMax
        THEN [plant |-> [p1 EXCEPT !.alert_message = "Pump Timeout (Safety)"],
              pump_command |-> FALSE]
        ELSE [plant |-> p1, pump_command |-> TRUE]

\* mutant: the layer runs without looking at the lock
IntelligenceLayer_NoLockTest(p, avg_soil, avg_temp, decision, t) ==
    LET vpd == calculate_vpd(avg_temp, p.outside_humidity)
        env == Environment(p.weather_condition, vpd, decision)
    IN  IF Critical(avg_soil, env.watering_threshold)
        THEN LET pl == PulseLogic(p, t)
             IN  [plant |-> pl.plant, pump_command |-> pl.pump_command,
                  decision |-> "Critical: Pulse Irrigation"]
        ELSE [plant |-> p, pump_command |-> FALSE, decision |-> env.decision]

\* mutant: the critical branch keeps the label of the environment
IntelligenceLayer_KeepsLabel(p, avg_soil, avg_temp, decision, t) ==
    IF p.pump_lock
    THEN [plant |-> p, pump_command |-> FALSE, decision |-> decision]
    ELSE LET vpd == calculate_vpd(avg_temp, p.outside_humidity)
             env == Environment(p.weather_condition, vpd, decision)
         IN  IF Critical(avg_soil, env.watering_threshold)
             THEN LET pl == PulseLogic(p, t)
                  IN  [plant |-> pl.plant, pump_command |-> pl.pump_command,
                       decision |-> env.decision]
             ELSE [plant |-> p, pump_command |-> FALSE,
                   decision |-> env.decision]

\* 3.2 Intelligence Layer, entered with the lock already written to p
IntelligenceLayer(p, avg_soil, avg_temp, decision, t) ==
    IF p.pump_lock
    THEN [plant |-> p, pump_command |-> FALSE, decision |-> decision]
    ELSE LET vpd == calculate_vpd(avg_temp, p.outside_humidity)
             env == Environment(p.weather_condition, vpd, decision)
         IN  IF Critical(avg_soil, env.watering_threshold)
             THEN LET pl == PulseLogic(p, t)
                  IN  [plant |-> pl.plant, pump_command |-> pl.pump_command,
                       decision |-> "Critical: Pulse Irrigation"]
             ELSE [plant |-> p, pump_command |-> FALSE,
                   decision |-> env.decision]

\* STEP 4: the payload handed to sio.emit (timestamp and the rounded vpd
\* are left out; sensors are in tenths)
OutputPayload(p, avg_soil, avg_temp, avg_light, data, decision) ==
    [sensors |-> [soil |-> Round1(avg_soil), temp |-> Round1(avg_temp),
                  light |-> Round1(avg_light),
                  npk |-> <<data.nitrogen, data.phosphorus, data.potassium>>],
     weather |-> [condition |-> p.weather_condition, temp |-> p.outside_temp,
                  humidity |-> p.outside_humidity],
     system |-> [pump_active |-> p.pump_status, algorithm_state |-> decision,
                 alert |-> p.alert_message, battery_level |-> BatteryShown]]

NoRecord == [sensors |-> "none"]

\* STEP 1, the three appends in order; a KeyError stops after the appends
\* already made
AppendSamples(p, data) ==
    IF ~Has(data, "soil_moisture") THEN [plant |-> p, raised |-> TRUE]
    ELSE LET p1 == [p EXCEPT !.soil_buffer = BufAppend(@, data.soil_moisture)] IN
    IF ~Has(data, "temperature") THEN [plant |-> p1, raised |-> TRUE]
    ELSE LET p2 == [p1 EXCEPT !.temp_buffer = BufAppend(@, data.temperature)] IN
    IF ~Has(data, "light_intensity") THEN [plant |-> p2, raised |-> TRUE]
    ELSE [plant |-> [p2 EXCEPT !.light_buffer = BufAppend(@, data.light_intensity)],
          raised |-> FALSE]

\* mutant: no early return
WarmingUp_Never(p) == FALSE

\* "Wait for buffer to fill slightly": the early return
WarmingUp(p) == Len(p.soil_buffer) < 2

\* sum() over a window raises TypeError on a value that is not a number
SumRaises(p) ==
    \E buf \in {p.soil_buffer, p.temp_buffer, p.light_buffer} :
        \E i \in 1..Len(buf) : buf[i] = NotANumber

\* STEP 1 up to last_sent_*: what the handler does before get_weather
sensor_head(p, data) ==
    LET a == AppendSamples(p, data)
        none == [soil |-> 0, temp |-> 0, light |-> 0]
    IN
    IF a.raised THEN [plant |-> a.plant, stage |-> "raised", avg |-> none]
    ELSE IF WarmingUp(a.plant)
    THEN [plant |-> a.plant, stage |-> "early", avg |-> none]
    ELSE IF SumRaises(a.plant)
    THEN [plant |-> a.plant, stage |-> "raised", avg |-> none]
    ELSE
    LET avg == [soil  |-> Mean(a.plant.soil_buffer),
                temp  |-> Mean(a.plant.temp_buffer),
                light |-> Mean(a.plant.light_buffer)]
    IN  [plant |-> [a.plant EXCEPT !.last_sent_temp = avg.temp,
                                   !.last_sent_soil = avg.soil],
         stage |-> "go", avg |-> avg]

\* STEP 3 and STEP 4: what the handler does after get_weather, at time t
sensor_decide(p2, avg, data, t) ==
    IF SafetyRaises(avg.soil, avg.temp, data)
    THEN [plant |-> p2, stage |-> "raised", out |-> NoRecord]
    ELSE
    LET A  == SafetyLayer(avg.soil, avg.temp, data)
        p3 == [p2 EXCEPT !.pump_lock = A.pump_lock,
                         !.alert_message = A.alert_message]
    IN
    \* calculate_vpd divides the humidity: TypeError when it is no number
    IF ~p3.pump_lock /\ p3.outside_humidity = NotANumber
    THEN [plant |-> p3, stage |-> "raised", out |-> NoRecord]
    ELSE
    LET B  == IntelligenceLayer(p3, avg.soil, avg.temp, A.decision, t)
        p4 == [B.plant EXCEPT !.pump_status = B.pump_command]
    IN
    IF ~(Has(data, "nitrogen") /\ Has(data, "phosphorus") /\ Has(data, "potassium"))
    THEN [plant |-> p4, stage |-> "raised", out |-> NoRecord]
    ELSE [plant |-> p4, stage |-> "emitted",
          out |-> OutputPayload(p4, avg.soil, avg.temp, avg.light, data, B.decision)]

\* the handler sensor_data(sid, data) entered at time t, the weather
\* request (if one goes out) answering resp after blocking for wait seconds
sensor_data(p, data, t, resp, wait) ==
    LET h == sensor_head(p, data) IN
    IF h.stage # "go"
    THEN [plant |-> h.plant, stage |-> h.stage, out |-> NoRecord]
    ELSE sensor_decide(get_weather(h.plant, t, resp), h.avg, data,
                       IF WeatherDue(h.plant, t) THEN t + wait ELSE t)

----------------------------------------------------------------------------
(* Inputs *)

Sample(s, tp, n, k) ==
    [soil_moisture |-> s, temperature |-> tp, light_intensity |-> 100,
     nitrogen |-> n, phosphorus |-> 50, potassium |-> k]

Ok(c, tp, h) ==
    [kind |-> "object",
     body |-> [cod |-> 200, weather |-> << [main |-> c] >>,
               main |-> [temp |-> tp, humidity |-> h]]]

\* outcomes of requests.get(...).json() that end in the except branch or
\* skip the update
Failures ==
    { [kind |-> "network_error"],
      [kind |-> "not_json"],
      [kind |-> "not_object"],
      [kind |-> "object", body |-> [cod |-> 401]],
      [kind |-> "object", body |-> [cod |-> 200, weather |-> << >>]],
      [kind |-> "object", body |-> [cod |-> 200, weather |-> << [main |-> "Rain"] >>]],
      [kind |-> "object",
       body |-> [cod |-> 200, weather |-> << [main |-> "Rain"] >>,
                 main |-> [temp |-> 25]]] }

Responses == Failures \cup {Ok("Rain", 25, 40), Ok("Clear", 25, 70), Ok("Clear", 22, 40)}

NoResponse == [kind |-> "none"]

\* pump timing: few samples, fine clock
PumpSamples == {Sample(s, 28, n, 50) : s \in {30, 90}, n \in {50, 250}}
PumpResponses == {Ok("Clear", 25, 70), [kind |-> "network_error"]}
PumpSteps == {1, 10}

\* decision layers: many samples, coarse clock
DecisionSamples ==
    {Sample(s, tp, 50, 50) : s \in {10, 30, 90}, tp \in {28, 44}}
        \cup {Sample(30, 28, 250, 50), Sample(30, 28, 50, 250),
              Sample(90, 44, 250, 50), Sample(45, 16, 50, 50)}
DecisionResponses ==
    {Ok("Rain", 25, 40), Ok("Clear", 25, 70), Ok("Clear", 25, 34),
     [kind |-> "network_error"]}
DecisionSteps == {11}

\* weather cache: one sample, every response, clock around the 600 s limit
WeatherSamples == {Sample(30, 28, 50, 50)}
WeatherSteps == {1, 599}

Actions == {"pump_on", "pump_off"}

\* the six fields the handler reads from a sensor record
Fields ==
    {"soil_moisture", "temperature", "light_intensity",
     "nitrogen", "phosphorus", "potassium"}

\* a record without field k, and one whose field k is no number
Drop(data, k) == [f \in DOMAIN data \ {k} |-> data[f]]
Spoil(data, k) == [data EXCEPT ![k] = NotANumber]

\* records with a missing or non-numeric field, weather answers with a
\* humidity that is no number (JSON null)
InvalidSamples ==
    { Sample(30, 28, 50, 50),
      Drop(Sample(30, 28, 50, 50), "temperature"),
      Drop(Sample(30, 28, 50, 50), "nitrogen"),
      Drop(Sample(30, 28, 50, 50), "phosphorus"),
      Spoil(Sample(30, 28, 50, 50), "soil_moisture"),
      Spoil(Sample(90, 28, 50, 50), "nitrogen") }
InvalidResponses ==
    {Ok("Clear", 25, 70), Ok("Clear", 25, NotANumber), [kind |-> "network_error"]}
InvalidSteps == {1}

\* valid records that differ on every smoothed channel
BufferSamples ==
    { [Sample(10, 20, 50, 50) EXCEPT !.light_intensity = 40],
      [Sample(45, 26, 50, 50) EXCEPT !.light_intensity = 100],
      [Sample(70, 30, 50, 50) EXCEPT !.light_intensity = 400] }
BufferResponses == {Ok("Clear", 25, 70)}
BufferSteps == {1}

\* what two clients send
SharedSamples == {Sample(30, 28, 50, 50), Sample(90, 28, 50, 50)}
SharedSteps == {1}

\* cycles that overlap on the event loop
ConcurrentSamples == {Sample(30, 28, 50, 50), Sample(90, 28, 50, 50)}
ConcurrentSteps == {11}

\* how long requests.get blocks, in seconds
Waits == {0, 7}
NoWait == {0}

\* the clients (socket ids)
Sids == {1, 2}

\* what the weather provider answers when nothing else is said
DefaultResponse == Ok("Clear", 25, 70)

----------------------------------------------------------------------------
(* State machine *)

InitPlant ==
    [soil_buffer |-> << >>, temp_buffer |-> << >>, light_buffer |-> << >>,
     last_sent_temp |-> (0 - 999) * Scale, last_sent_soil |-> (0 - 999) * Scale,
     pump_status |-> FALSE, pump_lock |-> FALSE, last_pump_time |-> 0,
     alert_message |-> "System Normal",
     weather_condition |-> "Unknown", outside_temp |-> 30,
     outside_humidity |-> 70, last_weather_fetch |-> 0]

Init ==
    /\ plant = InitPlant
    /\ now = StartTime
    /\ last = [kind |-> "none"]
    /\ fetch_times = << >>
    /\ emitted = 0
    /\ active_since = 0
    /\ cycles = 0
    /\ ticks = 0
    /\ inflight = << >>
    /\ solo = [s \in Sids |-> InitPlant]
    /\ log = [soil |-> << >>, temp |-> << >>, light |-> << >>]

\* the clock advances between handler invocations
Tick(d, maxTicks) ==
    /\ ticks < maxTicks
    /\ now' = now + d
    /\ ticks' = ticks + 1
    /\ UNCHANGED <<plant, last, fetch_times, emitted, active_since, cycles,
                   inflight, solo, log>>

\* does this invocation reach get_weather with the throttle open?
Fetches(p, data, t) ==
    LET h == sensor_head(p, data)
    IN  h.stage = "go" /\ WeatherDue(h.plant, t)

\* mutant: the weather request gives way to the event loop too
Suspends_Everywhere(point) == TRUE

\* where a handler coroutine gives way to the event loop: the one await of
\* sensor_data is on sio.emit; requests.get inside get_weather blocks
Suspends(point) == point = "emit"

Without(tasks, i) == [k \in 1..(Len(tasks) - 1) |-> IF k < i THEN tasks[k] ELSE tasks[k + 1]]

\* the values appended by lines 84-86 before a KeyError, if any
Logged(data) ==
    LET s == Has(data, "soil_moisture")
        t == s /\ Has(data, "temperature")
        l == t /\ Has(data, "light_intensity")
    IN  [soil  |-> IF s THEN Append(log.soil, data.soil_moisture) ELSE log.soil,
         temp  |-> IF t THEN Append(log.temp, data.temperature) ELSE log.temp,
         light |-> IF l THEN Append(log.light, data.light_intensity) ELSE log.light]

\* the same cycle on the PlantBrain the client would have to itself; r is
\* what the cycle does on the shared one
Alone(sid, data, resp, wait, r) ==
    IF solo[sid] = plant THEN r
    ELSE sensor_data(solo[sid], data, now,
                     IF resp = NoResponse THEN DefaultResponse ELSE resp, wait)

\* the handler, entered at t, has run to its end or to the emit at t2: r is
\* what it did, tasks the coroutines still suspended; park says whether
\* the emit gives way
Complete(sid, data, t, t2, pre, r, f, resp, tasks, park) ==
    /\ plant' = r.plant
    /\ last' = [kind |-> "sensor", sid |-> sid, data |-> data, t |-> t,
                t2 |-> t2, pre |-> pre,
                read |-> [pump_status |-> plant.pump_status,
                          last_pump_time |-> plant.last_pump_time],
                stage |-> r.stage, fetched |-> f,
                fetches_before |-> Len(fetch_times),
                emitted_before |-> emitted,
                resp |-> resp, out |-> r.out,
                alone |-> Alone(sid, data, resp, t2 - t, r).out]
    /\ emitted' = IF r.stage = "emitted" THEN emitted + 1 ELSE emitted
    /\ active_since' = IF ~plant.pump_status /\ r.plant.pump_status
                        THEN t2 ELSE active_since
    /\ inflight' = IF r.stage = "emitted" /\ park /\ Suspends("emit")
                   THEN Append(tasks, [pc |-> "emit", sid |-> sid, out |-> r.out])
                   ELSE tasks

\* a client sends sensor_data: the handler runs up to its first await;
\* a weather request answers resp and blocks the event loop for wait seconds
SensorData(sid, data, resp, wait, maxCycles, park) ==
    /\ cycles < maxCycles
    /\ cycles' = cycles + 1
    /\ log' = Logged(data)
    /\ now' = now + wait
    /\ UNCHANGED ticks
    /\ LET f == Fetches(plant, data, now) IN
       IF f /\ Suspends("weather")
       THEN /\ resp = NoResponse
            /\ wait = 0
            /\ plant' = sensor_head(plant, data).plant
            /\ inflight' = Append(inflight,
                   [pc |-> "weather", sid |-> sid, data |-> data, t |-> now,
                    pre |-> plant, avg |-> sensor_head(plant, data).avg])
            /\ fetch_times' = Append(fetch_times, now)
            /\ UNCHANGED <<last, emitted, active_since, solo>>
       ELSE /\ f = (resp # NoResponse)
            /\ ~f => wait = 0
            /\ fetch_times' = IF f THEN Append(fetch_times, now) ELSE fetch_times
            /\ LET r == sensor_data(plant, data, now, resp, wait) IN
                 /\ solo' = [solo EXCEPT
                                ![sid] = Alone(sid, data, resp, wait, r).plant]
                 /\ Complete(sid, data, now, now + wait, plant, r, f, resp,
                             inflight, park)

\* the event loop resumes a suspended handler coroutine
Resume(i, resp) ==
    /\ i \in 1..Len(inflight)
    /\ UNCHANGED <<now, ticks, cycles, fetch_times, solo, log>>
    /\ LET task == inflight[i] IN
       IF task.pc = "emit"
       THEN /\ resp = NoResponse
            /\ inflight' = Without(inflight, i)
            /\ UNCHANGED <<plant, last, emitted, active_since>>
       ELSE /\ resp # NoResponse
            /\ Complete(task.sid, task.data, task.t, now, task.pre,
                        sensor_decide(WeatherStamp(WeatherTry(plant, resp), task.t),
                                      task.avg, task.data, now),
                        TRUE, resp, Without(inflight, i), TRUE)

\* mutant: "pump_on" switches the pump on
manual_control_Override(p, data) ==
    IF data.action = "pump_on" THEN [p EXCEPT !.pump_status = TRUE] ELSE p

\* the handler manual_control(sid, data): prints, changes nothing
manual_control(p, data) == p

\* a client sends manual_control
ManualControl(data) ==
    /\ last.kind # "manual"
    /\ plant' = manual_control(plant, data)
    /\ last' = [kind |-> "manual", data |-> data, pre |-> plant,
                emitted_before |-> emitted]
    /\ UNCHANGED <<now, fetch_times, emitted, active_since, cycles, ticks,
                   inflight, solo, log>>

\* pump timing
Next ==
    \/ \E d \in PumpSteps : Tick(d, MaxTicks)
    \/ \E data \in PumpSamples, resp \in PumpResponses \cup {NoResponse},
          wait \in Waits :
           SensorData(1, data, resp, wait, MaxCycles, FALSE)
    \/ \E a \in Actions : ManualControl([action |-> a])

Spec == Init /\ [][Next]_vars

\* decision layers
NextD ==
    \/ \E d \in DecisionSteps : Tick(d, DecisionTicks)
    \/ \E data \in DecisionSamples, resp \in DecisionResponses \cup {NoResponse},
          wait \in NoWait :
           SensorData(1, data, resp, wait, DecisionCycles, FALSE)

SpecD == Init /\ [][NextD]_vars

\* weather cache
NextW ==
    \/ \E d \in WeatherSteps : Tick(d, WeatherTicks)
    \/ \E data \in WeatherSamples, resp \in Responses \cup {NoResponse},
          wait \in Waits :
           SensorData(1, data, resp, wait, WeatherCycles, FALSE)

SpecW == Init /\ [][NextW]_vars

\* invalid input
NextI ==
    \/ \E d \in InvalidSteps : Tick(d, InvalidTicks)
    \/ \E data \in InvalidSamples, resp \in InvalidResponses \cup {NoResponse},
          wait \in Waits :
           SensorData(1, data, resp, wait, InvalidCycles, FALSE)

SpecI == Init /\ [][NextI]_vars

\* smoothing windows
NextB ==
    \/ \E d \in BufferSteps : Tick(d, BufferTicks)
    \/ \E data \in BufferSamples, resp \in BufferResponses \cup {NoResponse},
          wait \in NoWait :
           SensorData(1, data, resp, wait, BufferCycles, FALSE)

SpecB == Init /\ [][NextB]_vars

\* two clients
NextS ==
    \/ \E d \in SharedSteps : Tick(d, SharedTicks)
    \/ \E sid \in Sids, data \in SharedSamples,
          resp \in {DefaultResponse, NoResponse}, wait \in Waits :
           SensorData(sid, data, resp, wait, SharedCycles, FALSE)

SpecS == Init /\ [][NextS]_vars

\* handler coroutines on the event loop
NextC ==
    \/ \E d \in ConcurrentSteps : Tick(d, ConcurrentTicks)
    \/ \E data \in ConcurrentSamples, resp \in {DefaultResponse, NoResponse},
          wait \in Waits :
           SensorData(1, data, resp, wait, ConcurrentCycles, TRUE)
    \/ \E i \in 1..ConcurrentCycles, resp \in {DefaultResponse, NoResponse} :
           Resume(i, resp)

SpecC == Init /\ [][NextC]_vars

----------------------------------------------------------------------------
(* The last cycle, read back from the inputs it was given *)

\* the last handler to run was a sensor_data that went on to its record
Decided == last.kind = "sensor" /\ last.stage = "emitted"

AvgSoil == Mean(plant.soil_buffer)
AvgTemp == Mean(plant.temp_buffer)

RuleSaturation == AvgSoil > 80 * 60
RuleHeat == AvgTemp > 35 * 60
RuleSalinity == last.data.nitrogen > 200 \/ last.data.potassium > 200
Locked == RuleSaturation \/ RuleHeat \/ RuleSalinity

Vpd == calculate_vpd(AvgTemp, plant.outside_humidity)
Raining == plant.weather_condition = "Rain"
Dry == Vpd > 120000000
Threshold == IF Raining THEN 20 ELSE IF Dry THEN 50 ELSE 40
Request == ~Locked /\ AvgSoil < Threshold * 60

StartedRunning == last.pre.pump_status
Elapsed == last.t2 - active_since
Label == last.out.system.algorithm_state
Alert == last.out.system.alert

----------------------------------------------------------------------------
(* Claims *)

\* C1: after every cycle that reaches the decision stage with a safety rule
\* matching (avg_soil > 80, avg_temp > 35, nitrogen > 200 or potassium >
\* 200), the pump is off and the record says so, whatever the pump state,
\* the weather and the elapsed time were before.
C1_LockedPumpOff ==
    (Decided /\ Locked) =>
        /\ ~plant.pump_status
        /\ plant.pump_lock
        /\ ~last.out.system.pump_active

\* a locked cycle that started with the pump running past its 10 s
C1_Witness ==
    /\ Decided /\ Locked
    /\ StartedRunning /\ Elapsed > 10
    /\ ~plant.pump_status

\* C2: under a request with no lock, the pump is on at the cycle that
\* starts the activation and at every later cycle up to 10 s after it, and
\* off with alert "Pump Timeout (Safety)" at a cycle more than 10 s after it.
C2_PumpTimeout ==
    (Decided /\ Request) =>
        IF StartedRunning /\ Elapsed > 10
        THEN ~plant.pump_status /\ Alert = "Pump Timeout (Safety)"
        ELSE plant.pump_status /\ Alert = "System Normal"

\* a requesting cycle exactly 10 s into the activation keeps the pump on
C2_Witness ==
    /\ Decided /\ Request
    /\ StartedRunning /\ Elapsed = 10
    /\ plant.pump_status

\* C3 as claimed: whenever the pump is running, no more than 10 s have
\* passed since last_pump_time.
C3_RunningAtMostTenSeconds ==
    plant.pump_status => now - plant.last_pump_time <= 10

\* C4 as claimed: a cycle that starts with the pump running for more than
\* 10 s ends with the pump off and the alert "Pump Timeout (Safety)",
\* whatever lock and pump_request are.
C4_TimeoutAlertAlways ==
    (Decided /\ StartedRunning /\ Elapsed > 10) =>
        /\ ~plant.pump_status
        /\ Alert = "Pump Timeout (Safety)"

\* the alert Layer A leaves for the cycle
SafetyAlert ==
    IF RuleSaturation THEN "Soil too wet! Pump disabled."
    ELSE IF RuleHeat THEN "High Temp! Watering paused."
    ELSE IF RuleSalinity THEN "Nutrient Burn Risk! Flush soil."
    ELSE "System Normal"

\* C4 amended: such a cycle ends with the pump off; its alert is "Pump
\* Timeout (Safety)" when the cycle is unlocked and avg_soil is below the
\* watering threshold, and otherwise the alert Layer A set (the lock's
\* message, or "System Normal").
C4_TimeoutStopsPump ==
    (Decided /\ StartedRunning /\ Elapsed > 10) =>
        /\ ~plant.pump_status
        /\ Alert = IF Request THEN "Pump Timeout (Safety)" ELSE SafetyAlert

\* a locked cycle past the 10 s: pump off, alert is the lock's
C4_Witness ==
    /\ Decided /\ StartedRunning /\ Elapsed > 10
    /\ Locked
    /\ ~plant.pump_status
    /\ Alert = SafetyAlert

\* C5: a cycle that starts with the pump idle, is not locked and has
\* avg_soil below the threshold ends with the pump running and
\* last_pump_time = the time of the cycle; so does the cycle right after a
\* timeout cycle.
C5_IdleToRunning ==
    (Decided /\ ~StartedRunning /\ Request) =>
        /\ plant.pump_status
        /\ plant.last_pump_time = last.t2
        /\ Alert = "System Normal"

\* the cycle after a timeout cycle starts a new activation
C5_Witness ==
    /\ Decided /\ ~StartedRunning /\ Request
    /\ last.pre.alert_message = "Pump Timeout (Safety)"
    /\ plant.pump_status
    /\ plant.last_pump_time = last.t2
    /\ last.t > StartTime

\* C6: Layer A applies the first matching rule in the order saturation,
\* heat stress, salinity: a locked cycle carries that rule's lock, label
\* and alert; lock is false exactly when no rule matches, and then the
\* alert is "System Normal" unless the pulse timeout replaces it.
C6_FirstMatchingRule ==
    Decided =>
        IF RuleSaturation THEN
            /\ plant.pump_lock /\ Label = "Saturation Lock"
            /\ Alert = "Soil too wet! Pump disabled."
        ELSE IF RuleHeat THEN
            /\ plant.pump_lock /\ Label = "Heat Stress"
            /\ Alert = "High Temp! Watering paused."
        ELSE IF RuleSalinity THEN
            /\ plant.pump_lock /\ Label = "Salinity Risk"
            /\ Alert = "Nutrient Burn Risk! Flush soil."
        ELSE
            /\ ~plant.pump_lock
            /\ Alert = IF Request /\ StartedRunning /\ Elapsed > 10
                       THEN "Pump Timeout (Safety)" ELSE "System Normal"

\* saturation and heat stress both hold (and salinity too): Saturation Lock
C6_Witness ==
    /\ Decided
    /\ RuleSaturation /\ RuleHeat /\ RuleSalinity
    /\ Label = "Saturation Lock"
    /\ Alert = "Soil too wet! Pump disabled."

\* C7: in an unlocked cycle the threshold is 20 under "Rain" (even with
\* VPD > 1.2), else 50 when VPD > 1.2, else 40; avg_soil below it gives
\* the label Critical: Pulse Irrigation and the pump on (unless the pulse
\* has timed out); otherwise the pump is off and the label is Raining
\* (Passive), High Transpiration or Optimal by the branch taken.
C7_Threshold ==
    (Decided /\ ~Locked) =>
        IF AvgSoil < Threshold * 60
        THEN /\ Label = "Critical: Pulse Irrigation"
             /\ plant.pump_status = ~(StartedRunning /\ Elapsed > 10)
        ELSE /\ ~plant.pump_status
             /\ Label = IF Raining THEN "Raining (Passive)"
                        ELSE IF Dry THEN "High Transpiration"
                        ELSE "Optimal"

\* avg_soil = 30 under Rain with VPD > 1.2: no request, Raining (Passive)
C7_Witness ==
    /\ Decided /\ ~Locked
    /\ Raining /\ Dry
    /\ AvgSoil = 30 * 60
    /\ ~plant.pump_status
    /\ Label = "Raining (Passive)"

\* the last cycle came to the get_weather call
CalledWeather == last.kind = "sensor" /\ last.stage # "early"

WeatherOf(p) ==
    <<p.weather_condition, p.outside_temp, p.outside_humidity,
      p.last_weather_fetch>>

\* C8: any two external requests are at least 600 s apart, whatever the
\* earlier one returned; a call less than 600 s after last_weather_fetch
\* sends nothing and leaves condition, outside_temp, outside_humidity and
\* last_weather_fetch as they were; a call at 600 s or more sends exactly
\* one request and sets last_weather_fetch to the time of the call.
C8_Throttle ==
    /\ \A i \in 1..Len(fetch_times) : \A j \in 1..Len(fetch_times) :
           i < j => fetch_times[j] - fetch_times[i] >= 600
    /\ CalledWeather =>
           IF last.t - last.pre.last_weather_fetch < 600
           THEN /\ Len(fetch_times) = last.fetches_before
                /\ WeatherOf(plant) = WeatherOf(last.pre)
           ELSE /\ Len(fetch_times) = last.fetches_before + 1
                /\ fetch_times[Len(fetch_times)] = last.t
                /\ plant.last_weather_fetch = last.t

\* a request exactly 600 s after one that failed, and none in between
C8_Witness ==
    /\ CalledWeather
    /\ Len(fetch_times) = 2
    /\ fetch_times[2] - fetch_times[1] = 600
    /\ last.pre.weather_condition = "Clouds"
    /\ plant.last_weather_fetch = last.t

\* C9 as claimed: after a request that failed (error, malformed payload,
\* status not ok) outside_temp and outside_humidity are what they were.
C9_FailureKeepsNumbers ==
    (CalledWeather /\ last.fetched /\ last.resp \in Failures) =>
        /\ plant.outside_temp = last.pre.outside_temp
        /\ plant.outside_humidity = last.pre.outside_humidity

\* C10 as claimed: after a request that failed, of whatever kind, the
\* condition is "Clouds" and last_weather_fetch is the time of the call.
C10_FailureFallsBack ==
    (CalledWeather /\ last.fetched /\ last.resp \in Failures) =>
        /\ plant.weather_condition = "Clouds"
        /\ plant.last_weather_fetch = last.t

----------------------------------------------------------------------------
(* C11 *)

\* every field present and a number
Valid(data) == \A k \in Fields : Has(data, k) /\ data[k] # NotANumber

\* C11: whatever the weather request answers, get_weather returns and the
\* cycle goes on to its decision and publishes its record: a cycle with a
\* valid sample that issued the request ends with a record published.
C11_WeatherNeverFailsCycle ==
    (last.kind = "sensor" /\ last.fetched /\ Valid(last.data))
        => last.stage = "emitted"

----------------------------------------------------------------------------
(* C12 *)

\* C12: a sensor record with a missing or non-numeric required field is
\* rejected: the cycle changes no state and publishes nothing.
C12_InvalidRejected ==
    (last.kind = "sensor" /\ ~Valid(last.data))
        => /\ plant = last.pre
           /\ last.stage # "emitted"
           /\ emitted = last.emitted_before
           /\ ~last.fetched

----------------------------------------------------------------------------
(* C13 *)

\* everything of the PlantBrain but the three windows
Beside(p) ==
    [k \in DOMAIN p \ {"soil_buffer", "temp_buffer", "light_buffer"} |-> p[k]]

\* C13: a cycle that leaves fewer than 2 values in the soil window publishes
\* no record, issues no weather request and changes nothing but the three
\* windows, to which it appends its sample.
C13_EarlyReturnOnlyAppends ==
    (last.kind = "sensor" /\ Len(plant.soil_buffer) < 2)
        => /\ emitted = last.emitted_before
           /\ last.stage # "emitted"
           /\ ~last.fetched
           /\ Len(fetch_times) = last.fetches_before
           /\ Beside(plant) = Beside(last.pre)
           /\ Valid(last.data) =>
                 /\ plant.soil_buffer =
                        Append(last.pre.soil_buffer, last.data.soil_moisture)
                 /\ plant.temp_buffer =
                        Append(last.pre.temp_buffer, last.data.temperature)
                 /\ plant.light_buffer =
                        Append(last.pre.light_buffer, last.data.light_intensity)

C13_Witness ==
    /\ last.kind = "sensor"
    /\ Valid(last.data)
    /\ last.stage = "early"
    /\ Len(plant.soil_buffer) = 1
    /\ plant.soil_buffer = << last.data.soil_moisture >>

----------------------------------------------------------------------------
(* C14 *)

\* C14: every valid cycle that passes the 2-sample gate publishes exactly
\* one record, and the record's pump_active and alert are the pump state
\* and alert the cycle left.
C14_OneRecordPerValidCycle ==
    (last.kind = "sensor" /\ Valid(last.data) /\ Len(plant.soil_buffer) >= 2)
        => /\ last.stage = "emitted"
           /\ emitted = last.emitted_before + 1
           /\ last.out.system.pump_active = plant.pump_status
           /\ last.out.system.alert = plant.alert_message

----------------------------------------------------------------------------
(* C15 *)

\* the last min(5, count) values of everything appended to a channel
Recent(all) ==
    IF Len(all) <= 5 THEN all ELSE SubSeq(all, Len(all) - 4, Len(all))

\* m, scaled by 60, is the arithmetic mean of the values w
IsMeanOf(m, w) == m * Len(w) = 60 * Sum(w)

\* C15: each window holds at most 5 values, namely the last min(5, count)
\* values appended in arrival order (a 6th append drops the oldest), and
\* the means a cycle uses and reports are the arithmetic means of those.
C15_Window ==
    /\ Len(plant.soil_buffer) <= 5
    /\ Len(plant.temp_buffer) <= 5
    /\ Len(plant.light_buffer) <= 5
    /\ plant.soil_buffer = Recent(log.soil)
    /\ plant.temp_buffer = Recent(log.temp)
    /\ plant.light_buffer = Recent(log.light)
    /\ Decided =>
          /\ IsMeanOf(plant.last_sent_soil, Recent(log.soil))
          /\ IsMeanOf(plant.last_sent_temp, Recent(log.temp))
          /\ last.out.sensors.soil = Round1(plant.last_sent_soil)
          /\ last.out.sensors.temp = Round1(plant.last_sent_temp)
          /\ LET w == Recent(log.light)
                 m == (60 * Sum(w)) \div Len(w)
             IN  /\ IsMeanOf(m, w)
                 /\ last.out.sensors.light = Round1(m)

C15_Witness ==
    /\ Decided
    /\ Len(log.soil) = 7
    /\ Len(plant.soil_buffer) = 5
    /\ log.soil[1] # log.soil[6]
    /\ log.soil[2] # log.soil[7]
    /\ plant.soil_buffer = SubSeq(log.soil, 3, 7)

----------------------------------------------------------------------------
(* C16 *)

\* C16: state is scoped to one client: what a client's cycle publishes and
\* the state it leaves are what they would be had the other client sent
\* nothing.
C16_DeviceIsolation ==
    last.kind = "sensor"
        => /\ last.out = last.alone
           /\ plant = solo[last.sid]

----------------------------------------------------------------------------
(* C17 *)

\* C17: a manual_control request, whatever its action and wherever it falls
\* between cycles, leaves the whole controller state as it was and
\* publishes nothing.
C17_ManualNoOp ==
    last.kind = "manual"
        => /\ plant = last.pre
           /\ emitted = last.emitted_before
           /\ inflight = << >>

C17_Witness ==
    /\ last.kind = "manual"
    /\ last.data.action = "pump_on"
    /\ cycles >= 2
    /\ cycles < MaxCycles
    /\ ~plant.pump_status
    /\ ~plant.pump_lock
    /\ emitted >= 1

----------------------------------------------------------------------------
(* C18 *)

\* C18: cycles are serialized: a handler is suspended only at the publish,
\* with its record built, and the pump state and activation time its
\* decision reads are those it found on entry, left by the cycle before it.
C18_Serialized ==
    /\ \A i \in 1..Len(inflight) :
          /\ inflight[i].pc = "emit"
          /\ inflight[i].out # NoRecord
    /\ last.kind = "sensor"
          => /\ last.read.pump_status = last.pre.pump_status
             /\ last.read.last_pump_time = last.pre.last_pump_time
             /\ last.stage = "emitted" => last.out.system.pump_active = plant.pump_status

C18_Witness ==
    /\ last.kind = "sensor"
    /\ last.stage = "emitted"
    /\ Len(inflight) >= 2
    /\ last.pre.pump_status
    /\ last.read.pump_status
    /\ ~plant.pump_status

----------------------------------------------------------------------------
(* C19 *)

\* C19: last_pump_time is written only by a cycle that finds the pump off
\* and leaves it on, which sets it to the time of that cycle; every other
\* cycle leaves it as it was, so while the pump is on last_pump_time is the
\* time the pump was switched on.
C19_StampOnlyOnStart ==
    /\ last.kind = "sensor" =>
          IF ~last.pre.pump_status /\ plant.pump_status
          THEN plant.last_pump_time = last.t2
          ELSE plant.last_pump_time = last.pre.last_pump_time
    /\ plant.pump_status => plant.last_pump_time = active_since

C19_Witness ==
    /\ last.kind = "sensor"
    /\ last.stage = "emitted"
    /\ last.pre.pump_status
    /\ ~plant.pump_status
    /\ plant.alert_message = "Pump Timeout (Safety)"
    /\ last.t2 - plant.last_pump_time > 10
    /\ plant.last_pump_time = active_since

----------------------------------------------------------------------------
(* C20 *)

\* C20: in every published record, pump_active true comes with the label
\* "Critical: Pulse Irrigation" and the alert "System Normal".
C20_ActiveMeansCriticalNormal ==
    (Decided /\ last.out.system.pump_active)
        => /\ last.out.system.algorithm_state = "Critical: Pulse Irrigation"
           /\ last.out.system.alert = "System Normal"

C20_Witness ==
    /\ Decided
    /\ last.out.system.pump_active
    /\ last.out.system.algorithm_state = "Critical: Pulse Irrigation"
    /\ last.out.system.alert = "System Normal"
    /\ Vpd > 120000000
    /\ AvgSoil >= 40 * 60

=============================================================================
